---- MODULE Spec2Model ----
(***************************************************************************)
(* Model of the map screen of the wyd-app client (app/(tabs)/map.tsx):     *)
(* the schedule evaluator isOpenNow, the filter/rank pipeline `filtered`,  *)
(* and the nearby-fetch controller fetchNearby with its callers; and of    *)
(* the blog tab (app/(tabs)/blog.tsx): the posts fetch and the nearby      *)
(* ordering of the posts.                                                  *)
(*                                                                         *)
(* Conventions.  A JavaScript value that may be null/undefined is a        *)
(* sequence of length 0 (Null) or 1 (Some(v)).  A time string is a tuple   *)
(* of one-character strings, so that parseHHMMSS is computed from the      *)
(* characters the way the regular expression reads them.                   *)
(***************************************************************************)
EXTENDS Integers, Sequences, FiniteSets, TLC

VARIABLES
    loc,            \* SpecOpen: the LocationItem handed to isOpenNow
    openNow,        \* SpecOpen: Null, or Some(result of the last isOpenNow(loc))
    clock,          \* the instant `new Date()` returns: [day, secs] in UTC
    hostTZ,         \* Intl.DateTimeFormat().resolvedOptions().timeZone, or NoIntl
    raw,            \* MapScreen state `raw`: the committed, annotated record set
    filters,        \* MapScreen state `filters`
    ranked,         \* the value of the `filtered` memo for the current raw and filters
    regionRef,      \* regionRef.current: Null, or Some(the region of the map)
    visiblePins,    \* the value of the `visiblePins` memo: the records drawn as pins
    pc,             \* where the startup effect's async function is waiting
    mounted,        \* FALSE once the effect's cleanup has run
    abortRef,       \* abortRef.current: 0 (null) or the index of a fetch
    fetches,        \* every fetchNearby call so far, in the order of the calls
    loadingPins,    \* MapScreen state `loadingPins`
    radiusMiles,    \* MapScreen state `radiusMiles`
    lastUserCoords, \* MapScreen state `lastUserCoords`
    radiusTimer,    \* the pending timeouts of onRadiusChange, oldest first, each with
                    \* what its callback captured; radiusTimer.current is the newest
    lastSettled,    \* history: the fetch that settled most recently, 0 if none
    rawFrom,        \* history: the fetch whose result is in raw, 0 if none
    selected,       \* MapScreen state `selected`: Null, or Some(the record in the modal)
    blog            \* the hooks of BlogTab, as one record

openVars == <<loc, openNow>>
envVars == <<clock, hostTZ>>
filterVars == <<raw, filters, ranked>>
viewVars == <<regionRef, visiblePins>>
screenVars ==
    <<pc, mounted, abortRef, fetches, loadingPins, radiusMiles, lastUserCoords, radiusTimer,
      lastSettled, rawFrom>>
tabVars == <<selected, blog>>
vars ==
    <<loc, openNow, clock, hostTZ, raw, filters, ranked, regionRef, visiblePins, pc, mounted,
      abortRef, fetches, loadingPins, radiusMiles, lastUserCoords, radiusTimer, lastSettled,
      rawFrom, selected, blog>>

Null == <<>>
Some(v) == <<v>>
IsNull(x) == x = <<>>
Val(x) == x[1]

(***************************************************************************)
(* Bounds of the model.                                                    *)
(***************************************************************************)
\* a schedule has entries on at most MaxEntries weekdays, or on all seven
MaxEntries == 2
\* a nearby response lists at most MaxRecords venues
MaxRecords == 2
\* a session issues at most MaxFetches nearby fetches
MaxFetches == 2
\* the radius is moved at most MaxRadiusSteps steps of 5 miles from its start
MaxRadiusSteps == 1
\* SpecPins: a nearby response lists at most MaxCrowd venues
MaxCrowd == 502
\* SpecCourts: a venue reports indoor and outdoor counts within -MaxCourts..MaxCourts
MaxCourts == 4
\* SpecBlog: the blog tab issues at most MaxPostFetches posts fetches
MaxPostFetches == 2
\* SpecBlog: the user requests the nearby ordering at most MaxSorts times
MaxSorts == 2

(***************************************************************************)
(* Strings.                                                                *)
(***************************************************************************)
DigitVal == ("0" :> 0) @@ ("1" :> 1) @@ ("2" :> 2) @@ ("3" :> 3) @@ ("4" :> 4) @@
            ("5" :> 5) @@ ("6" :> 6) @@ ("7" :> 7) @@ ("8" :> 8) @@ ("9" :> 9)

IsDigit(c) == c \in DOMAIN DigitVal

\* String.prototype.trim on a tuple of characters
RECURSIVE trimLeft(_)
trimLeft(s) == IF s # <<>> /\ Head(s) = " " THEN trimLeft(Tail(s)) ELSE s

RECURSIVE trimRight(_)
trimRight(s) ==
    IF s # <<>> /\ s[Len(s)] = " " THEN trimRight(SubSeq(s, 1, Len(s) - 1)) ELSE s

trim(s) == trimRight(trimLeft(s))

\* parseInt of a two-character (or one-character) run of digits
parseInt10(s) == IF Len(s) = 1 THEN DigitVal[s[1]] ELSE DigitVal[s[1]] * 10 + DigitVal[s[2]]

AllDigits(s) == \A i \in 1..Len(s) : IsDigit(s[i])

\* s.match(/^(\d{1,2}):(\d{2})(?::(\d{2}))?$/): Null, or Some of the groups.
\* hl is the length of the hour group; the place of the first colon fixes it.
matchHHMMSS(s) ==
    LET fits(hl) ==
            /\ Len(s) \in {hl + 3, hl + 6}
            /\ AllDigits(SubSeq(s, 1, hl))
            /\ s[hl + 1] = ":"
            /\ AllDigits(SubSeq(s, hl + 2, hl + 3))
            /\ Len(s) = hl + 6 => s[hl + 4] = ":" /\ AllDigits(SubSeq(s, hl + 5, hl + 6))
        groups(hl) ==
            [h |-> SubSeq(s, 1, hl),
             m |-> SubSeq(s, hl + 2, hl + 3),
             s |-> IF Len(s) = hl + 6 THEN Some(SubSeq(s, hl + 5, hl + 6)) ELSE Null]
    IN  IF fits(2) THEN Some(groups(2))
        ELSE IF fits(1) THEN Some(groups(1))
        ELSE Null

\* parseHHMMSS(t): Null, or Some(seconds since midnight)
parseHHMMSS(t) ==
    LET s == trim(IF IsNull(t) THEN <<>> ELSE Val(t)) IN
    IF s = <<>> THEN Null
    ELSE LET m == matchHHMMSS(s) IN
         IF IsNull(m) THEN Null
         ELSE LET hh == parseInt10(Val(m).h)
                  mm == parseInt10(Val(m).m)
                  ss == IF IsNull(Val(m).s) THEN 0 ELSE parseInt10(Val(Val(m).s))
              IN  IF hh < 0 \/ hh > 23 \/ mm < 0 \/ mm > 59 \/ ss < 0 \/ ss > 59
                  THEN Null
                  ELSE Some(hh * 3600 + mm * 60 + ss)

(***************************************************************************)
(* Weekdays and the clock.                                                 *)
(***************************************************************************)
\* prevDayKey's `order`
DayOrder == <<"sun", "mon", "tue", "wed", "thu", "fri", "sat">>
DayKeys == {DayOrder[i] : i \in 1..7}

indexOfDay(day) ==
    IF day \in DayKeys THEN (CHOOSE i \in 1..7 : DayOrder[i] = day) - 1 ELSE 0 - 1

\* prevDayKey(day): Null for an unknown key, else Some(the day before)
prevDayKey(day) ==
    LET i == indexOfDay(day) IN
    IF i < 0 THEN Null ELSE Some(DayOrder[((i + 6) % 7) + 1])

SecondsPerDay == 24 * 3600

\* a host whose JavaScript engine has no Intl object: every use of Intl throws
NoIntl == "no Intl"

\* the IANA identifiers the model's Intl knows, with their offset from UTC
ZoneOffsetHours == ("Etc/UTC" :> 0) @@ ("America/New_York" :> (0 - 5)) @@ ("Asia/Tokyo" :> 9)

\* getNowPartsInTZ(tz) at instant clk on a host: Null when Intl throws (no
\* Intl, or an unknown zone), else Some([dayKey, seconds]) of the wall clock
\* in that zone
getNowPartsInTZ(tz, clk, host) ==
    IF host = NoIntl \/ tz \notin DOMAIN ZoneOffsetHours THEN Null
    ELSE LET week == 7 * SecondsPerDay
             t == (clk.day * SecondsPerDay + clk.secs + ZoneOffsetHours[tz] * 3600 + week) % week
         IN  Some([dayKey |-> DayOrder[(t \div SecondsPerDay) + 1],
                   seconds |-> t % SecondsPerDay])

\* String(h.tz ?? "").trim() on the zone strings of the model
BlankStrings == {"", " "}
trimTZ(tz) == IF IsNull(tz) \/ Val(tz) \in BlankStrings THEN "" ELSE Val(tz)

(***************************************************************************)
(* ScheduleEvaluator.                                                      *)
(***************************************************************************)
\* getHoursForDay with a close time that does not parse read as the open time
getHoursForDayLenient(h, dayKey) ==
    IF IsNull(h) THEN Null
    ELSE LET d == Val(h).days[dayKey] IN
         IF IsNull(d) THEN Null
         ELSE LET openS == parseHHMMSS(Val(d).open)
                  closeS == parseHHMMSS(Val(d).close)
              IN  IF IsNull(openS) THEN Null
                  ELSE Some([openS |-> Val(openS),
                             closeS |-> IF IsNull(closeS) THEN Val(openS) ELSE Val(closeS)])

\* getHoursForDay(h, dayKey): Null, or Some([openS, closeS])
getHoursForDay(h, dayKey) ==
    IF IsNull(h) THEN Null
    ELSE LET d == Val(h).days[dayKey] IN
         IF IsNull(d) THEN Null
         ELSE LET openS == parseHHMMSS(Val(d).open)
                  closeS == parseHHMMSS(Val(d).close)
              IN  IF IsNull(openS) \/ IsNull(closeS) THEN Null
                  ELSE Some([openS |-> Val(openS), closeS |-> Val(closeS)])

\* openAt with the overnight window of today's entry read as a same-day window
openAtSameDayOnly(h, todayKey, nowS) ==
    LET todays == getHoursForDay(h, todayKey) IN
    /\ ~IsNull(todays)
    /\ \/ Val(todays).openS = Val(todays).closeS
       \/ nowS >= Val(todays).openS /\ nowS < Val(todays).closeS

\* openAt without the 24-hour sentinel: open == close is an empty window
openAtNoSentinel(h, todayKey, nowS) ==
    LET todays == getHoursForDay(h, todayKey) IN
    /\ ~IsNull(todays)
    /\ IF Val(todays).openS < Val(todays).closeS
       THEN nowS >= Val(todays).openS /\ nowS < Val(todays).closeS
       ELSE Val(todays).openS > Val(todays).closeS
            /\ (nowS >= Val(todays).openS \/ nowS < Val(todays).closeS)

\* the part of isOpenNow after `now` is known (lines 274-293)
openAt(h, todayKey, nowS) ==
    LET todays == getHoursForDay(h, todayKey)
        yKey == prevDayKey(todayKey)
        y == IF IsNull(yKey) THEN Null ELSE getHoursForDay(h, Val(yKey))
        fromYesterday ==
            /\ ~IsNull(y)
            /\ \/ Val(y).openS = Val(y).closeS
               \/ Val(y).openS > Val(y).closeS /\ nowS < Val(y).closeS
    IN  IF ~IsNull(todays)
        THEN LET openS == Val(todays).openS
                 closeS == Val(todays).closeS
             IN  IF openS = closeS THEN TRUE
                 ELSE IF openS < closeS THEN nowS >= openS /\ nowS < closeS
                 ELSE nowS >= openS \/ nowS < closeS
        ELSE fromYesterday

\* line 270: the schedule's zone if it is not blank, else the host's
effectiveTZ(h, host) == IF trimTZ(Val(h).tz) # "" THEN trimTZ(Val(h).tz) ELSE host

\* line 270 is outside every try: with a blank tz the host's zone is looked
\* up through Intl, and on a host without Intl that throws out of isOpenNow
isOpenNowThrows(l, host) ==
    /\ ~IsNull(l.hours)
    /\ trimTZ(Val(l.hours).tz) = ""
    /\ host = NoIntl

\* what a caller gets when isOpenNow throws
Thrown == <<"ReferenceError", "Intl">>

\* isOpenNow(loc) evaluated at instant clk on a host whose zone is host: the
\* value it returns when it does not throw
isOpenNow(l, clk, host) ==
    LET h == l.hours IN
    IF IsNull(h) THEN FALSE
    ELSE LET now == getNowPartsInTZ(effectiveTZ(h, host), clk, host) IN
         IF IsNull(now) THEN FALSE
         ELSE openAt(h, Val(now).dayKey, Val(now).seconds)

(***************************************************************************)
(* Annotation of fetched records (fetchNearby, lines 483-487).             *)
(***************************************************************************)
max0(n) == IF n > 0 THEN n ELSE 0

\* Number(c?.indoor ?? 0), Number(c?.outdoor ?? 0)
indoorOf(c) == IF IsNull(c) THEN 0 ELSE Val(c).indoor
outdoorOf(c) == IF IsNull(c) THEN 0 ELSE Val(c).outdoor

totalCourts(c) == max0(indoorOf(c) + outdoorOf(c))

\* one element of `enhanced`: the record plus _totalCourts and _openNow
enhance(l, clk, host) ==
    [item |-> l, _totalCourts |-> totalCourts(l.courts), _openNow |-> isOpenNow(l, clk, host)]

enhanceAll(items, clk, host) == [i \in 1..Len(items) |-> enhance(items[i], clk, host)]

(***************************************************************************)
(* Skill-level tags.  A skill_levels string is a tuple of tokens: words,   *)
(* and the characters " ", ",", "[", "]" and the double quote Q.           *)
(***************************************************************************)
Q == "\""

RECURSIVE splitOn(_, _)
\* s.split(sep) on a tuple of tokens
splitOn(s, sep) ==
    IF \A i \in 1..Len(s) : s[i] # sep THEN <<s>>
    ELSE LET k == CHOOSE i \in 1..Len(s) : s[i] = sep /\ \A j \in 1..(i - 1) : s[j] # sep
         IN  <<SubSeq(s, 1, k - 1)>> \o splitOn(SubSeq(s, k + 1, Len(s)), sep)

\* the text of a trimmed piece: the model's pieces are single words
pieceText(piece) == IF Len(piece) = 1 THEN piece[1] ELSE "?"

\* JSON.parse(s) when it yields an array of strings: Some(the strings), else Null
jsonStringArray(s) ==
    IF Len(s) < 2 \/ s[1] # "[" \/ s[Len(s)] # "]" THEN Null
    ELSE LET inner == trim(SubSeq(s, 2, Len(s) - 1))
             parts == IF inner = <<>> THEN <<>> ELSE splitOn(inner, ",")
             quoted(x) == Len(trim(x)) = 3 /\ trim(x)[1] = Q /\ trim(x)[3] = Q
         IN  IF \A i \in 1..Len(parts) : quoted(parts[i])
             THEN Some([i \in 1..Len(parts) |-> trim(parts[i])[2]])
             ELSE Null

\* getSkillLevelsArray(loc): the venue's tags, as a sequence of strings
getSkillLevelsArray(l) ==
    LET v == l.skill_levels IN
    IF IsNull(v) THEN <<>>
    ELSE IF Val(v).kind = "array" THEN Val(v).v
    ELSE LET s == trim(Val(v).v) IN
         IF s = <<>> THEN <<>>
         ELSE IF ~IsNull(jsonStringArray(s)) THEN Val(jsonStringArray(s))
         ELSE LET pieces == splitOn(s, ",")
                  texts == [i \in 1..Len(pieces) |-> trim(pieces[i])]
              IN  [i \in 1..Len(SelectSeq(texts, LAMBDA x : x # <<>>)) |->
                     pieceText(SelectSeq(texts, LAMBDA x : x # <<>>)[i])]

(***************************************************************************)
(* FilterRankPipeline: the `filtered` memo (lines 594-646).                *)
(***************************************************************************)
DEFAULT_FILTERS ==
    [access |-> "any", courtType |-> "any", visitedOnly |-> FALSE, openNowOnly |-> FALSE,
     courtsBucket |-> "any", sortBy |-> "distance", skillLevels |-> <<>>]

\* String.prototype.toLowerCase on the access strings of the model
toLowerCase(str) ==
    IF str = "Public" THEN "public" ELSE IF str = "PAID" THEN "paid" ELSE str

\* Number(loc.visited ?? 0) === 1
isVisited(u) == (IF IsNull(u.item.visited) THEN 0 ELSE Val(u.item.visited)) = 1

inBucket(bucket, t) ==
    /\ bucket = "1-2" => t >= 1 /\ t <= 2
    /\ bucket = "3-5" => t >= 3 /\ t <= 5
    /\ bucket = "6-9" => t >= 6 /\ t <= 9
    /\ bucket = "10+" => t >= 10

\* passes with the court-type test reading the wrong count
passesWrongCourt(u, f) ==
    /\ f.visitedOnly => isVisited(u)
    /\ f.openNowOnly => u._openNow
    /\ f.access # "any" =>
          toLowerCase(IF IsNull(u.item.access_type) THEN "" ELSE Val(u.item.access_type)) = f.access
    /\ f.courtType = "indoor" => outdoorOf(u.item.courts) > 0
    /\ f.courtType = "outdoor" => outdoorOf(u.item.courts) > 0
    /\ f.courtsBucket # "any" => inBucket(f.courtsBucket, u._totalCourts)

\* passes with the open-now test recomputed from the clock at each evaluation
passesRecomputesOpen(u, f) ==
    /\ f.visitedOnly => isVisited(u)
    /\ f.openNowOnly => isOpenNow(u.item, clock, hostTZ)
    /\ f.access # "any" =>
          toLowerCase(IF IsNull(u.item.access_type) THEN "" ELSE Val(u.item.access_type)) = f.access
    /\ f.courtType # "any" =>
          /\ f.courtType = "indoor" => indoorOf(u.item.courts) > 0
          /\ f.courtType = "outdoor" => outdoorOf(u.item.courts) > 0
    /\ f.courtsBucket # "any" => inBucket(f.courtsBucket, u._totalCourts)

\* passes(loc) under filters f (lines 595-622)
passes(u, f) ==
    /\ f.visitedOnly => isVisited(u)
    /\ f.openNowOnly => u._openNow
    /\ f.access # "any" =>
          toLowerCase(IF IsNull(u.item.access_type) THEN "" ELSE Val(u.item.access_type)) = f.access
    /\ f.courtType # "any" =>
          /\ f.courtType = "indoor" => indoorOf(u.item.courts) > 0
          /\ f.courtType = "outdoor" => outdoorOf(u.item.courts) > 0
    /\ f.courtsBucket # "any" => inBucket(f.courtsBucket, u._totalCourts)

sign(n) == IF n > 0 THEN 1 ELSE IF n < 0 THEN 0 - 1 ELSE 0

\* sortFn with a missing distance read as 0 instead of +Infinity
sortFnMissingNearest(a, b, sortKey) ==
    IF sortKey = "distance"
    THEN sign((IF IsNull(a.item.distance_mi) THEN 0 ELSE Val(a.item.distance_mi))
              - (IF IsNull(b.item.distance_mi) THEN 0 ELSE Val(b.item.distance_mi)))
    ELSE IF sortKey = "rating"
    THEN LET ra == IF IsNull(a.item.rating_overall) THEN 0 - 1 ELSE Val(a.item.rating_overall)
             rb == IF IsNull(b.item.rating_overall) THEN 0 - 1 ELSE Val(b.item.rating_overall)
         IN  sign(rb - ra)
    ELSE sign(b._totalCourts - a._totalCourts)

\* sortFn with a missing rating read as 0 instead of -1
sortFnUnratedAsZero(a, b, sortKey) ==
    IF sortKey = "distance"
    THEN LET da == a.item.distance_mi
             db == b.item.distance_mi
         IN  IF IsNull(da) /\ IsNull(db) THEN 0
             ELSE IF IsNull(da) THEN 1
             ELSE IF IsNull(db) THEN 0 - 1
             ELSE sign(Val(da) - Val(db))
    ELSE IF sortKey = "rating"
    THEN LET ra == IF IsNull(a.item.rating_overall) THEN 0 ELSE Val(a.item.rating_overall)
             rb == IF IsNull(b.item.rating_overall) THEN 0 ELSE Val(b.item.rating_overall)
         IN  sign(rb - ra)
    ELSE sign(b._totalCourts - a._totalCourts)

\* sortFn(a, b) under sortKey, as Array.prototype.sort reads its result:
\* the sign, with NaN (Infinity - Infinity) read as 0
sortFn(a, b, sortKey) ==
    IF sortKey = "distance"
    THEN LET da == a.item.distance_mi
             db == b.item.distance_mi
         IN  IF IsNull(da) /\ IsNull(db) THEN 0
             ELSE IF IsNull(da) THEN 1
             ELSE IF IsNull(db) THEN 0 - 1
             ELSE sign(Val(da) - Val(db))
    ELSE IF sortKey = "rating"
    THEN LET ra == IF IsNull(a.item.rating_overall) THEN 0 - 1 ELSE Val(a.item.rating_overall)
             rb == IF IsNull(b.item.rating_overall) THEN 0 - 1 ELSE Val(b.item.rating_overall)
         IN  sign(rb - ra)
    ELSE sign(b._totalCourts - a._totalCourts)

\* x put into the sorted s before the first element that sorts at or after it
insertBeforeTies(x, s, sortKey) ==
    LET after == {i \in 1..Len(s) : sortFn(s[i], x, sortKey) >= 0}
        k == IF after = {} THEN Len(s) + 1 ELSE CHOOSE i \in after : \A j \in after : i <= j
    IN  SubSeq(s, 1, k - 1) \o <<x>> \o SubSeq(s, k, Len(s))

RECURSIVE sortUnstable(_, _)
\* a sort that reverses the elements comparing equal
sortUnstable(s, sortKey) ==
    IF s = <<>> THEN <<>>
    ELSE insertBeforeTies(s[Len(s)], sortUnstable(SubSeq(s, 1, Len(s) - 1), sortKey), sortKey)

RECURSIVE mergeRightFirst(_, _, _)
\* merge with the elements of b put before the elements of a they tie with
mergeRightFirst(a, b, sortKey) ==
    IF a = <<>> THEN b
    ELSE IF b = <<>> THEN a
    ELSE LET m == (Len(a) + 1) \div 2
             p == Cardinality({k \in 1..Len(b) : sortFn(b[k], a[m], sortKey) <= 0})
         IN  mergeRightFirst(SubSeq(a, 1, m - 1), SubSeq(b, 1, p), sortKey)
             \o <<a[m]>>
             \o mergeRightFirst(SubSeq(a, m + 1, Len(a)), SubSeq(b, p + 1, Len(b)), sortKey)

RECURSIVE merge(_, _, _)
\* the stable merge of the sorted runs a and b, a being the earlier one: the
\* middle element of a goes after the elements of b that sort before it and
\* before those that tie with it or sort after it
merge(a, b, sortKey) ==
    IF a = <<>> THEN b
    ELSE IF b = <<>> THEN a
    ELSE LET m == (Len(a) + 1) \div 2
             p == Cardinality({k \in 1..Len(b) : sortFn(b[k], a[m], sortKey) < 0})
         IN  merge(SubSeq(a, 1, m - 1), SubSeq(b, 1, p), sortKey)
             \o <<a[m]>>
             \o merge(SubSeq(a, m + 1, Len(a)), SubSeq(b, p + 1, Len(b)), sortKey)

RECURSIVE sort(_, _)
\* Array.prototype.sort(sortFn): a stable merge sort
sort(s, sortKey) ==
    IF Len(s) <= 1 THEN s
    ELSE LET h == Len(s) \div 2 IN
         merge(sort(SubSeq(s, 1, h), sortKey), sort(SubSeq(s, h + 1, Len(s)), sortKey),
               sortKey)

\* filtered without the verified/other partition: one sorted list
filteredOneGroup(rawList, f) ==
    sort(SelectSeq(rawList, LAMBDA u : passes(u, f)), f.sortBy)

\* the `filtered` memo for record set rawList and filters f
filtered(rawList, f) ==
    LET list == SelectSeq(rawList, LAMBDA u : passes(u, f))
        visited == sort(SelectSeq(list, LAMBDA u : isVisited(u)), f.sortBy)
        notVisited == sort(SelectSeq(list, LAMBDA u : ~isVisited(u)), f.sortBy)
    IN  visited \o notVisited

(***************************************************************************)
(* ViewportCuller: inRegion and the `visiblePins` memo (lines 358-364,     *)
(* 648-657).                                                               *)
(***************************************************************************)
Region(lat, lng, latDelta, lngDelta) ==
    [latitude |-> lat, longitude |-> lng, latitudeDelta |-> latDelta,
     longitudeDelta |-> lngDelta]

\* inRegion(loc, r): center - delta/2 <= coordinate <= center + delta/2,
\* both sides doubled to stay in the integers
inRegion(l, r) ==
    /\ 2 * l.latitude >= 2 * r.latitude - r.latitudeDelta
    /\ 2 * l.latitude <= 2 * r.latitude + r.latitudeDelta
    /\ 2 * l.longitude >= 2 * r.longitude - r.longitudeDelta
    /\ 2 * l.longitude <= 2 * r.longitude + r.longitudeDelta

\* line 650: the cap while no region is known
CapNoRegion == 250
\* line 653: the caps of a zoomed-out and of a zoomed-in map
CapZoomedOut == 250
CapZoomedIn == 500

\* Array.prototype.slice(0, n)
slice0(s, n) == SubSeq(s, 1, IF Len(s) < n THEN Len(s) ELSE n)

\* line 652: latitudeDelta > 3 || longitudeDelta > 3
zoomedOut(r) == r.latitudeDelta > 3 * 1000 \/ r.longitudeDelta > 3 * 1000

\* the cap without the test of longitudeDelta
capOfLatitudeOnly(r) == IF r.latitudeDelta > 3 * 1000 THEN CapZoomedOut ELSE CapZoomedIn

\* line 653
capOf(r) == IF zoomedOut(r) THEN CapZoomedOut ELSE CapZoomedIn

\* visiblePins cut to the cap before the region test
visiblePinsCapFirst(filteredList, r) ==
    IF IsNull(r) THEN slice0(filteredList, CapNoRegion)
    ELSE SelectSeq(slice0(filteredList, capOf(Val(r))), LAMBDA u : inRegion(u.item, Val(r)))

\* the `visiblePins` memo for the ranked list and regionRef.current
visiblePinsMemo(filteredList, r) ==
    IF IsNull(r) THEN slice0(filteredList, CapNoRegion)
    ELSE slice0(SelectSeq(filteredList, LAMBDA u : inRegion(u.item, Val(r))), capOf(Val(r)))

(***************************************************************************)
(* MapScreen: the state of the hooks at mount (lines 419-447).             *)
(***************************************************************************)
\* useState(25)
RadiusAtMount == 25

\* BlogTab: useState(25) for `radius`
BlogRadiusAtMount == 25

\* BlogTab: the state of the hooks at the first render (blog.tsx, lines
\* 99-113).  `fetches` holds every fetchPosts call and `sorts` every
\* applySort("nearby") call so far; abortRef is 0 or the index of a fetch.
\* Paging (`page`, onLoadMore) and pull-to-refresh are not modelled.
BlogAtMount ==
    [q |-> "", sort |-> "recent", radius |-> BlogRadiusAtMount, basePosts |-> <<>>,
     posts |-> <<>>, loading |-> FALSE, abortRef |-> 0, fetches |-> <<>>, sorts |-> <<>>,
     mounted |-> TRUE]

MapScreenAtMount ==
    /\ selected = Null
    /\ pc = "perm"
    /\ mounted = TRUE
    /\ abortRef = 0
    /\ fetches = <<>>
    /\ loadingPins = FALSE
    /\ radiusMiles = RadiusAtMount
    /\ lastUserCoords = Null
    /\ radiusTimer = <<>>
    /\ regionRef = Null
    /\ lastSettled = 0
    /\ rawFrom = 0

\* both tabs as mounted; the specifications of the map leave the blog tab there
ScreenAtMount ==
    /\ MapScreenAtMount
    /\ blog = BlogAtMount

(***************************************************************************)
(* Inputs of the schedule evaluator.                                       *)
(***************************************************************************)
T0200 == <<"0", "2", ":", "0", "0">>
T0800 == <<"0", "8", ":", "0", "0">>
T0900 == <<" ", "9", ":", "0", "0", ":", "0", "0">>
T1700 == <<"1", "7", ":", "0", "0">>
T2200 == <<"2", "2", ":", "0", "0">>
T2400 == <<"2", "4", ":", "0", "0">>
T1060 == <<"1", "0", ":", "6", "0">>
T9AM == <<"9", "a", "m">>

HoursDay(o, c) == Some([open |-> o, close |-> c])

Overnight == HoursDay(Some(T2200), Some(T0200))
Daytime == HoursDay(Some(T0900), Some(T1700))
AllDay == HoursDay(Some(T0800), Some(T0800))
BadOpen == HoursDay(Some(T2400), Some(T0200))
NoClose == HoursDay(Some(T2200), Null)
Garbled == HoursDay(Some(T9AM), Some(T1060))

DayEntries == {Overnight, Daytime, AllDay, BadOpen, NoClose, Garbled}

NoDays == [d \in DayKeys |-> Null]

\* the weekly tables: the same entry every day, or entries on few days
WeekTables ==
    {[d \in DayKeys |-> e] : e \in DayEntries}
    \cup {t \in UNION {[DayKeys -> {Null, e1, e2}] : e1, e2 \in DayEntries} :
            Cardinality({d \in DayKeys : ~IsNull(t[d])}) <= MaxEntries}

Zones == {Null, Some(" "), Some("America/New_York"), Some("Asia/Tokyo"), Some("Mars/Olympus")}

Schedules == {Some([days |-> t, tz |-> z]) : t \in WeekTables, z \in Zones}

\* the instants the clock is sampled at, as seconds of the UTC day
SampleTimes == <<1 * 3600 + 1800, 3 * 3600, 6 * 3600 + 1800, 12 * 3600, 23 * 3600 + 1800>>

Instants == {[day |-> d, secs |-> SampleTimes[i]] : d \in 0..6, i \in 1..Len(SampleTimes)}

\* the hosts of the screen's specifications have Intl
HostZones == {"Etc/UTC"}

(***************************************************************************)
(* SpecOpen: isOpenNow applied to a venue as time passes.                  *)
(***************************************************************************)
InitOpen ==
    /\ loc \in {[hours |-> h] : h \in Schedules \cup {Null}}
    /\ clock \in Instants
    /\ hostTZ \in HostZones
    /\ openNow = Null
    /\ raw = <<>>
    /\ filters = DEFAULT_FILTERS
    /\ ranked = <<>>
    /\ visiblePins = <<>>
    /\ ScreenAtMount

\* a caller evaluates isOpenNow(loc)
EvalOpenNow ==
    /\ openNow' = IF isOpenNowThrows(loc, hostTZ) THEN Thrown
                  ELSE Some(isOpenNow(loc, clock, hostTZ))
    /\ UNCHANGED <<tabVars, loc, clock, hostTZ, filterVars, viewVars, screenVars>>

\* time passes to the next sampled instant
Tick ==
    /\ \E i \in 1..Len(SampleTimes) :
          /\ clock.secs = SampleTimes[i]
          /\ clock' = IF i < Len(SampleTimes)
                      THEN [clock EXCEPT !.secs = SampleTimes[i + 1]]
                      ELSE [day |-> (clock.day + 1) % 7, secs |-> SampleTimes[1]]
    /\ openNow' = Null
    /\ UNCHANGED <<tabVars, loc, hostTZ, filterVars, viewVars, screenVars>>

NextOpen == EvalOpenNow \/ Tick

SpecOpen == InitOpen /\ [][NextOpen]_vars

(***************************************************************************)
(* SpecHost: isOpenNow on hosts with and without Intl, for venues with the *)
(* same entry every day.                                                   *)
(***************************************************************************)
InitHost ==
    /\ loc \in {[hours |-> h] :
                  h \in {Some([days |-> [d \in DayKeys |-> e], tz |-> z]) :
                            e \in DayEntries, z \in Zones} \cup {Null}}
    /\ clock \in Instants
    /\ hostTZ \in HostZones \cup {NoIntl}
    /\ openNow = Null
    /\ raw = <<>>
    /\ filters = DEFAULT_FILTERS
    /\ ranked = <<>>
    /\ visiblePins = <<>>
    /\ ScreenAtMount

SpecHost == InitHost /\ [][NextOpen]_vars

(***************************************************************************)
(* The venues the model's server knows.  Latitudes, longitudes and the     *)
(* deltas of a region are in thousandths of a degree.                      *)
(***************************************************************************)
EveryDay(e, z) == Some([days |-> [d \in DayKeys |-> e], tz |-> z])

SkillArray(v) == Some([kind |-> "array", v |-> v])
SkillString(v) == Some([kind |-> "string", v |-> v])

Venue(id, lat, lng, dist, vis, rating, courts, access, hours, skills) ==
    [id |-> id, latitude |-> lat, longitude |-> lng, distance_mi |-> dist, visited |-> vis,
     rating_overall |-> rating, courts |-> courts, access_type |-> access, hours |-> hours,
     skill_levels |-> skills]

Courts(i, o) == Some([indoor |-> i, outdoor |-> o])

Venues == {
    Venue(1, 40000, 0 - 74000, Some(2), Some(1), Some(8), Courts(2, 0), Some("public"),
          EveryDay(AllDay, Null), SkillArray(<<"beginner", "pro">>)),
    Venue(2, 41000, 0 - 74000, Some(1), Some(0), Some(0), Courts(0, 4), Some("paid"),
          EveryDay(Daytime, Some("America/New_York")),
          SkillString(<<"beginner", ",", " ", "intermediate">>)),
    Venue(3, 45000, 0 - 80000, Null, Null, Null, Null, Null, Null, Null),
    Venue(4, 40100, 0 - 74100, Null, Some(1), Null, Courts(6, 6), Some("Public"),
          EveryDay(Overnight, Null), SkillString(<<"[", Q, "pro", Q, "]">>)),
    Venue(5, 42000, 0 - 73000, Some(3), Some(0), Some(8), Courts(1, 3), Some("public"),
          EveryDay(AllDay, Some("Mars/Olympus")), SkillString(<<" ", "pro", " ">>)) }

\* the `locations` a nearby response can carry: distinct venues, in any order
RECURSIVE ListsOf(_)
ListsOf(n) ==
    IF n = 0 THEN {<<>>}
    ELSE ListsOf(n - 1) \cup
         {Append(l, v) : l \in {x \in ListsOf(n - 1) : Len(x) = n - 1},
                         v \in Venues} 

LocationLists ==
    {l \in ListsOf(MaxRecords) : \A i, j \in 1..Len(l) : i # j => l[i].id # l[j].id}

\* the skill keys of the filters modal that the model toggles
SkillKeys == {"beginner", "pro"}

(***************************************************************************)
(* SpecFilter: the filters modal acting on a committed record set.         *)
(***************************************************************************)
InitFilter ==
    /\ loc = [hours |-> Null]
    /\ openNow = Null
    /\ clock = [day |-> 1, secs |-> 12 * 3600]
    /\ hostTZ \in HostZones
    /\ raw \in {enhanceAll(l, clock, hostTZ) : l \in LocationLists}
    /\ filters = DEFAULT_FILTERS
    /\ ranked = filtered(raw, filters)
    /\ visiblePins = visiblePinsMemo(ranked, Null)
    /\ ScreenAtMount

\* setFilters followed by a reload of the records
setFiltersAndReload(next) ==
    /\ filters' = next
    /\ raw' = <<>>
    /\ ranked' = <<>>
    /\ visiblePins' = <<>>
    /\ UNCHANGED <<tabVars, regionRef, openVars, envVars, screenVars>>

\* setFilters(next) and the re-render that recomputes the memo
setFilters(next) ==
    /\ filters' = next
    /\ ranked' = filtered(raw, next)
    /\ visiblePins' = visiblePinsMemo(ranked', regionRef)
    /\ UNCHANGED <<tabVars, raw, regionRef, openVars, envVars, screenVars>>

ResetFilters == setFilters(DEFAULT_FILTERS)

CycleAccess ==
    setFilters([filters EXCEPT !.access =
        IF @ = "any" THEN "public" ELSE IF @ = "public" THEN "paid" ELSE "any"])

CycleCourtType ==
    setFilters([filters EXCEPT !.courtType =
        IF @ = "any" THEN "indoor" ELSE IF @ = "indoor" THEN "outdoor" ELSE "any"])

CycleCourtsBucket ==
    setFilters([filters EXCEPT !.courtsBucket =
        IF @ = "any" THEN "1-2" ELSE IF @ = "1-2" THEN "3-5" ELSE IF @ = "3-5" THEN "6-9"
        ELSE IF @ = "6-9" THEN "10+" ELSE "any"])

ToggleOpenNow == setFilters([filters EXCEPT !.openNowOnly = ~@])

ToggleVisitedOnly == setFilters([filters EXCEPT !.visitedOnly = ~@])

ToggleSkill(k) ==
    setFilters([filters EXCEPT !.skillLevels =
        IF \E i \in 1..Len(@) : @[i] = k
        THEN SelectSeq(@, LAMBDA x : x # k)
        ELSE Append(@, k)])

CycleSortBy ==
    setFilters([filters EXCEPT !.sortBy =
        IF @ = "distance" THEN "rating" ELSE IF @ = "rating" THEN "courts" ELSE "distance"])

NextFilter ==
    \/ ResetFilters
    \/ CycleAccess
    \/ CycleCourtType
    \/ CycleCourtsBucket
    \/ ToggleOpenNow
    \/ ToggleVisitedOnly
    \/ \E k \in SkillKeys : ToggleSkill(k)
    \/ CycleSortBy

SpecFilter == InitFilter /\ [][NextFilter]_vars

(***************************************************************************)
(* SpecPins: the map is moved and zoomed over a crowded record set.        *)
(***************************************************************************)
\* the i-th venue of a crowd: every second one verified, and with k > 0
\* every k-th one far to the north of the others
CrowdVenue(i, k) ==
    Venue(100 + i, IF k > 0 /\ i % k = 0 THEN 48000 ELSE 40000, 0 - 74000, Some(i),
          Some(i % 2), Null, Null, Null, Null, Null)

Crowd(n, k) == [i \in 1..n |-> CrowdVenue(i, k)]

CrowdSizes == {MaxCrowd, MaxCrowd - 250, 3}

CrowdLists == {Crowd(n, k) : n \in CrowdSizes, k \in {0, 3, 300}}

\* the regions the map reports: around the crowd, the whole continent, wide
\* in longitude only, with the crowd on its northern edge, away from every
\* venue, and exactly three degrees wide
MapRegions ==
    {Region(40000, 0 - 74000, 250, 250), Region(40000, 0 - 74000, 18000, 18000),
     Region(40000, 0 - 74000, 250, 4000), Region(39000, 0 - 74000, 2000, 2000),
     Region(10000, 10000, 250, 250), Region(40000, 0 - 74000, 3000, 3000)}

InitPins ==
    /\ loc = [hours |-> Null]
    /\ openNow = Null
    /\ clock = [day |-> 1, secs |-> 12 * 3600]
    /\ hostTZ \in HostZones
    /\ raw \in {enhanceAll(l, clock, hostTZ) : l \in CrowdLists}
    /\ filters = DEFAULT_FILTERS
    /\ ranked = filtered(raw, filters)
    /\ visiblePins = visiblePinsMemo(ranked, Null)
    /\ ScreenAtMount

\* onRegionChangeComplete(r) (lines 772-775): the user moved or zoomed the map
RegionChangeComplete(r) ==
    /\ regionRef' = Some(r)
    /\ visiblePins' = visiblePinsMemo(ranked, regionRef')
    /\ UNCHANGED <<tabVars, openVars, envVars, filterVars, screenVars>>

NextPins ==
    \/ \E r \in MapRegions : RegionChangeComplete(r)
    \/ CycleSortBy

SpecPins == InitPins /\ [][NextPins]_vars

(***************************************************************************)
(* Spec: the map screen's nearby fetches (fetchNearby and its callers).    *)
(*                                                                         *)
(* fetch() and Response.json() follow the Fetch standard: once the signal  *)
(* is aborted, the pending await rejects with an AbortError, whether the   *)
(* response has arrived or not.  The rejection is handled in a later task, *)
(* so other events may come first.                                         *)
(***************************************************************************)
\* what the location provider can report
LastFix == "lastFix"
FreshFix == "freshFix"

\* the bodies the nearby endpoint can answer with
JsonReply(ok, locations) == [status |-> "json", ok |-> ok, locations |-> locations]
GarbageReply == [status |-> "garbage", ok |-> FALSE, locations |-> Null]
NetworkFailure == [status |-> "neterr", ok |-> FALSE, locations |-> Null]

VenueById(id) == CHOOSE v \in Venues : v.id = id

\* where each fix is, and the region the screen puts around a fix
PositionOf(coords) ==
    IF coords = LastFix THEN [lat |-> 40000, lng |-> 0 - 74000]
    ELSE [lat |-> 40100, lng |-> 0 - 74100]

RegionAround(coords) == Region(PositionOf(coords).lat, PositionOf(coords).lng, 250, 250)

\* the venues the server finds around each position
Nearby(coords) ==
    IF coords = LastFix THEN <<VenueById(1)>> ELSE <<VenueById(4), VenueById(2)>>

\* what a request for `coords` can end with
RepliesTo(coords) ==
    {JsonReply(TRUE, Some(Nearby(coords))), JsonReply(FALSE, Null), GarbageReply, NetworkFailure}

InitScreen ==
    /\ loc = [hours |-> Null]
    /\ openNow = Null
    /\ clock = [day |-> 1, secs |-> 12 * 3600]
    /\ hostTZ \in HostZones
    /\ raw = <<>>
    /\ filters = DEFAULT_FILTERS
    /\ ranked = <<>>
    /\ visiblePins = <<>>
    /\ ScreenAtMount

clamp(n, a, b) == IF n < a THEN a ELSE IF n > b THEN b ELSE n

\* fetch(url, {signal}) without the signal: an abort rejects nothing
signalNotPassed(f) == FALSE

\* line 475: the awaits of a fetch whose signal is aborted reject
rejectsOnAbort(f) == f.aborted

\* line 478 without the test of data.ok
replyAlwaysOk(data) == TRUE

\* line 478: `if (!data.ok) throw`
replyOk(data) == data.ok

\* line 480: Array.isArray(data.locations) ? data.locations : []
itemsOf(data) == IF IsNull(data.locations) THEN <<>> ELSE Val(data.locations)

InFlight(i) == i \in 1..Len(fetches) /\ fetches[i].phase # "settled"

\* fetchNearby up to its first await (lines 464-475): abort the current
\* controller, install a new one, show the loading status, send the request
callFetchNearby(coords, radius, by) ==
    /\ fetches' =
          Append(IF abortRef = 0 THEN fetches
                 ELSE [fetches EXCEPT ![abortRef].aborted = TRUE,
                                      ![abortRef].superseded = InFlight(abortRef)],
                 [coords |-> coords, radius |-> radius, by |-> by, phase |-> "fetching",
                  aborted |-> FALSE, superseded |-> FALSE, reply |-> Null,
                  outcome |-> "pending", notice |-> FALSE])
    /\ abortRef' = Len(fetches) + 1
    /\ loadingPins' = TRUE

CanFetch == Len(fetches) < MaxFetches

\* the `.catch` handler each call site hangs on fetchNearby's promise (lines
\* 544, 576, 673-674, 686): only onPressNearMe's shows an alert
catchAlerts(by) == by = "nearMe"

\* settle with a `finally` block that clears abortRef.current untested
settleClearsAlways(i, outcome, reply) ==
    /\ fetches' = [fetches EXCEPT ![i].phase = "settled", ![i].outcome = outcome,
                                  ![i].reply = reply,
                                  ![i].notice = outcome = "failed" /\ catchAlerts(fetches[i].by)]
    /\ abortRef' = 0
    /\ loadingPins' = FALSE
    /\ lastSettled' = i

\* the end of fetchNearby for fetch i: the `finally` block (lines 503-506),
\* and for a rethrown error the caller's `.catch` handler
settle(i, outcome, reply) ==
    /\ fetches' = [fetches EXCEPT ![i].phase = "settled", ![i].outcome = outcome,
                                  ![i].reply = reply,
                                  ![i].notice = outcome = "failed" /\ catchAlerts(fetches[i].by)]
    /\ abortRef' = IF abortRef = i THEN 0 ELSE abortRef
    /\ loadingPins' = FALSE
    /\ lastSettled' = i

\* the request of fetch i ends and, if a body came, `res.json()` ends:
\* lines 475-489 or the rethrow of line 502, then the `finally` block
FetchSettles(i) ==
    /\ InFlight(i)
    /\ ~rejectsOnAbort(fetches[i])
    /\ \E data \in RepliesTo(fetches[i].coords) :
          IF data.status = "json" /\ replyOk(data)
          THEN /\ raw' = enhanceAll(itemsOf(data), clock, hostTZ)
               /\ ranked' = filtered(raw', filters)
               /\ visiblePins' = visiblePinsMemo(ranked', regionRef)
               /\ rawFrom' = i
               /\ settle(i, "committed", Some(data))
          ELSE /\ UNCHANGED <<raw, ranked, visiblePins, rawFrom>>
               /\ settle(i, "failed", Some(data))
    /\ UNCHANGED <<tabVars, openVars, envVars, filters, regionRef, pc, mounted, radiusMiles,
                   lastUserCoords, radiusTimer>>

\* the pending await of an aborted fetch rejects with an AbortError:
\* the catch returns (line 501), then the `finally` block
AbortSettles(i) ==
    /\ InFlight(i)
    /\ rejectsOnAbort(fetches[i])
    /\ settle(i, "aborted", Null)
    /\ UNCHANGED <<tabVars, openVars, envVars, filterVars, viewVars, pc, mounted, radiusMiles,
                   lastUserCoords, radiusTimer, rawFrom>>

\* startup effect, lines 515-523: the permission request settles
PermissionGranted ==
    /\ pc = "perm"
    /\ pc' = "lastKnown"
    /\ UNCHANGED <<tabVars, openVars, envVars, filterVars, viewVars, mounted, abortRef, fetches,
                   loadingPins, radiusMiles, lastUserCoords, radiusTimer, lastSettled,
                   rawFrom>>

\* permission denied, or the request throws (lines 516-519, 581-584)
PermissionDenied ==
    /\ pc = "perm"
    /\ pc' = "done"
    /\ UNCHANGED <<tabVars, openVars, envVars, filterVars, viewVars, mounted, abortRef, fetches,
                   loadingPins, radiusMiles, lastUserCoords, radiusTimer, lastSettled,
                   rawFrom>>

\* lines 527-545: a last known position exists; the effect's closure still
\* holds the radius of the first render.  regionRef.current is assigned with
\* no setRegionTick, so the `visiblePins` memo is not recomputed
\* recenterTo without the setRegionTick: the `visiblePins` memo is not recomputed
recenterToNoTick(r) ==
    /\ regionRef' = Some(r)
    /\ visiblePins' = visiblePins

\* recenterTo(r) (lines 452-456): regionRef.current is assigned and
\* setRegionTick makes the `visiblePins` memo recompute
recenterTo(r) ==
    /\ regionRef' = Some(r)
    /\ visiblePins' = visiblePinsMemo(ranked, regionRef')

LastKnownFound ==
    /\ pc = "lastKnown"
    /\ CanFetch
    /\ lastUserCoords' = Some(LastFix)
    /\ regionRef' = Some(RegionAround(LastFix))
    /\ callFetchNearby(LastFix, RadiusAtMount, "lastKnown")
    /\ pc' = "fresh"
    /\ UNCHANGED <<tabVars, openVars, envVars, filterVars, visiblePins, mounted, radiusMiles,
                   radiusTimer, lastSettled, rawFrom>>

\* no last known position, or the lookup throws (lines 528, 546-548)
LastKnownMissing ==
    /\ pc = "lastKnown"
    /\ pc' = "fresh"
    /\ UNCHANGED <<tabVars, openVars, envVars, filterVars, viewVars, mounted, abortRef, fetches,
                   loadingPins, radiusMiles, lastUserCoords, radiusTimer, lastSettled,
                   rawFrom>>

\* lines 552-576: the fresh fix arrives within the timeout; recenterTo (and
\* with it setRegionTick) runs only if a region is already known
FreshFixFound ==
    /\ pc = "fresh"
    /\ CanFetch
    /\ lastUserCoords' = Some(FreshFix)
    /\ IF IsNull(regionRef)
       THEN regionRef' = Some(RegionAround(FreshFix)) /\ visiblePins' = visiblePins
       ELSE recenterTo(RegionAround(FreshFix))
    /\ callFetchNearby(FreshFix, RadiusAtMount, "fresh")
    /\ pc' = "done"
    /\ UNCHANGED <<tabVars, openVars, envVars, filterVars, mounted, radiusMiles, radiusTimer,
                   lastSettled, rawFrom>>

\* the fresh fix times out or fails (lines 577-580)
FreshFixTimeout ==
    /\ pc = "fresh"
    /\ pc' = "done"
    /\ UNCHANGED <<tabVars, openVars, envVars, filterVars, viewVars, mounted, abortRef, fetches,
                   loadingPins, radiusMiles, lastUserCoords, radiusTimer, lastSettled,
                   rawFrom>>

\* onPressNearMe with the location known (lines 665-675)
PressNearMe ==
    /\ mounted
    /\ ~IsNull(lastUserCoords)
    /\ CanFetch
    /\ recenterTo(RegionAround(Val(lastUserCoords)))
    /\ callFetchNearby(Val(lastUserCoords), radiusMiles, "nearMe")
    /\ UNCHANGED <<tabVars, openVars, envVars, filterVars, pc, mounted, radiusMiles, lastUserCoords,
                   radiusTimer, lastSettled, rawFrom>>

\* clearTimeout that cancels nothing
clearTimeoutNoop(timers) == timers

\* clearTimeout(radiusTimer.current): the one pending timeout is cancelled
clearTimeout(timers) == <<>>

\* onRadiusChange(delta) (lines 678-688)
RadiusChange(delta) ==
    /\ mounted
    /\ LET next == clamp(radiusMiles + delta, 5, 200) IN
          /\ next - RadiusAtMount <= 5 * MaxRadiusSteps
          /\ RadiusAtMount - next <= 5 * MaxRadiusSteps
          /\ radiusMiles' = next
          /\ radiusTimer' = IF IsNull(lastUserCoords) THEN radiusTimer
                            ELSE Append(clearTimeout(radiusTimer),
                                        [coords |-> Val(lastUserCoords), next |-> next])
    /\ UNCHANGED <<tabVars, openVars, envVars, filterVars, viewVars, pc, mounted, abortRef, fetches,
                   loadingPins, lastUserCoords, lastSettled, rawFrom>>

\* the 250 ms timeout of onRadiusChange fires (line 686)
RadiusTimerFires ==
    /\ radiusTimer # <<>>
    /\ CanFetch
    /\ callFetchNearby(Head(radiusTimer).coords, Head(radiusTimer).next, "radius")
    /\ radiusTimer' = Tail(radiusTimer)
    /\ UNCHANGED <<tabVars, openVars, envVars, filterVars, viewVars, pc, mounted, radiusMiles,
                   lastUserCoords, lastSettled, rawFrom>>

\* the screen unmounts: the effect's cleanup (lines 587-590)
Unmount ==
    /\ mounted
    /\ mounted' = FALSE
    /\ fetches' = IF abortRef = 0 THEN fetches ELSE [fetches EXCEPT ![abortRef].aborted = TRUE]
    /\ radiusTimer' = clearTimeout(radiusTimer)
    /\ UNCHANGED <<tabVars, openVars, envVars, filterVars, viewVars, pc, abortRef, loadingPins,
                   radiusMiles, lastUserCoords, lastSettled, rawFrom>>

Next ==
    \/ PermissionGranted
    \/ PermissionDenied
    \/ LastKnownFound
    \/ LastKnownMissing
    \/ FreshFixFound
    \/ FreshFixTimeout
    \/ PressNearMe
    \/ \E delta \in {0 - 5, 5} : RadiusChange(delta)
    \/ RadiusTimerFires
    \/ Unmount
    \/ \E i \in 1..MaxFetches : FetchSettles(i)
    \/ \E i \in 1..MaxFetches : AbortSettles(i)

Spec == InitScreen /\ [][Next]_vars

(***************************************************************************)
(* SpecMap: everything that writes regionRef.current, the ranked list or   *)
(* the pins: the startup effect, onPressNearMe, the settling of the        *)
(* fetches, the unmount, the gestures of the map and a toggle of the       *)
(* filters modal.  The radius buttons write none of them and are left to   *)
(* Spec.                                                                   *)
(***************************************************************************)
PanRegions == {Region(10000, 10000, 250, 250), Region(40000, 0 - 74000, 18000, 18000)}

NextMap ==
    \/ PermissionGranted
    \/ PermissionDenied
    \/ LastKnownFound
    \/ LastKnownMissing
    \/ FreshFixFound
    \/ FreshFixTimeout
    \/ PressNearMe
    \/ Unmount
    \/ \E i \in 1..MaxFetches : FetchSettles(i)
    \/ \E i \in 1..MaxFetches : AbortSettles(i)
    \/ \E r \in PanRegions : RegionChangeComplete(r)
    \/ ToggleVisitedOnly

SpecMap == InitScreen /\ [][NextMap]_vars

(***************************************************************************)
(* The details modal (lines 786-832, 1026-1030).                           *)
(***************************************************************************)
\* setSelected(loc) from a pin or a result card (lines 788, 817): every
\* record offered is one of the `filtered` list
SelectVenue(j) ==
    /\ mounted
    /\ j \in 1..Len(ranked)
    /\ selected' = Some(ranked[j])
    /\ UNCHANGED <<blog, openVars, envVars, filterVars, viewVars, screenVars>>

\* setSelected(null): the modal is closed (lines 828, 831)
CloseDetails ==
    /\ ~IsNull(selected)
    /\ selected' = Null
    /\ UNCHANGED <<blog, openVars, envVars, filterVars, viewVars, screenVars>>

\* DetailsPanel renders for the selected record and recomputes isOpenNow(loc)
\* (lines 1029-1030)
RenderDetails ==
    /\ ~IsNull(selected)
    /\ openNow' = IF isOpenNowThrows(Val(selected).item, hostTZ) THEN Thrown
                  ELSE Some(isOpenNow(Val(selected).item, clock, hostTZ))
    /\ UNCHANGED <<tabVars, loc, envVars, filterVars, viewVars, screenVars>>

(***************************************************************************)
(* SpecDetails: the fetch controller together with the details modal.      *)
(***************************************************************************)
NextDetails ==
    \/ Next
    \/ \E j \in 1..MaxRecords : SelectVenue(j)
    \/ CloseDetails

SpecDetails == InitScreen /\ [][NextDetails]_vars

(***************************************************************************)
(* SpecStale: a record set committed at some instant stays on the screen   *)
(* while time passes, the filters, the sort key and the viewport change    *)
(* and the details modal is opened.                                        *)
(***************************************************************************)
CommitTimes == {[day |-> 1, secs |-> SampleTimes[i]] : i \in 1..Len(SampleTimes)}

StaleLists == {<<VenueById(4), VenueById(2)>>, <<VenueById(1), VenueById(4)>>}

InitStale ==
    /\ loc = [hours |-> Null]
    /\ openNow = Null
    /\ clock \in CommitTimes
    /\ hostTZ \in HostZones
    /\ raw \in {enhanceAll(l, clock, hostTZ) : l \in StaleLists}
    /\ filters = DEFAULT_FILTERS
    /\ ranked = filtered(raw, filters)
    /\ visiblePins = visiblePinsMemo(ranked, Null)
    /\ ScreenAtMount

NextStale ==
    \/ Tick
    \/ ToggleOpenNow
    \/ CycleSortBy
    \/ \E r \in PanRegions : RegionChangeComplete(r)
    \/ \E j \in 1..2 : SelectVenue(j)
    \/ RenderDetails
    \/ CloseDetails

SpecStale == InitStale /\ [][NextStale]_vars

(***************************************************************************)
(* SpecBlog: the blog tab (app/(tabs)/blog.tsx).  A post is its slug.      *)
(***************************************************************************)
\* the search queries the model submits
Queries == {"", "dink"}

\* the posts the posts endpoint lists for a query, most recent first
PostsFor(query) == IF query = "" THEN <<"p1", "p2", "p3", "p4">> ELSE <<"p3", "p1">>

\* the radius pills (line 347)
BlogRadii == {25, 50, 100}

\* the positions the device can report, and for each the distance in miles
\* of the nearest reviewed location of a post
Positions == {"home", "away"}
ReviewedNear(pos) ==
    IF pos = "home" THEN [p4 |-> 20, p2 |-> 40, p3 |-> 60, p1 |-> 90]
    ELSE [s \in {} |-> 0]

\* fetchNearbyRank(lat, lng, r) (lines 148-166): the map from slug to distance
\* built from the locations the nearby endpoint finds within r miles
fetchNearbyRank(pos, r) ==
    [s \in {x \in DOMAIN ReviewedNear(pos) : ReviewedNear(pos)[x] <= r} |->
        ReviewedNear(pos)[s]]

\* the comparator of line 209, a.d - b.d < 0, a missing distance being
\* +Infinity (Infinity - Infinity is NaN, which sort reads as 0)
before(distBySlug, a, b) ==
    /\ a \in DOMAIN distBySlug
    /\ b \in DOMAIN distBySlug => distBySlug[a] < distBySlug[b]

RECURSIVE insertPost(_, _, _)
insertPost(sorted, p, distBySlug) ==
    IF sorted = <<>> THEN <<p>>
    ELSE IF before(distBySlug, p, Head(sorted)) THEN <<p>> \o sorted
    ELSE <<Head(sorted)>> \o insertPost(Tail(sorted), p, distBySlug)

\* lines 204-211: basePosts in ascending distance, by a stable sort
RECURSIVE rankByDistance(_, _)
rankByDistance(base, distBySlug) ==
    IF base = <<>> THEN <<>>
    ELSE insertPost(rankByDistance(SubSeq(base, 1, Len(base) - 1), distBySlug),
                    base[Len(base)], distBySlug)

\* the part of fetchPosts before its first await (lines 119-129): the
\* previous controller is aborted and a request for the query is issued
fetchPosts(b) ==
    LET old == IF b.abortRef = 0 THEN b.fetches
               ELSE [b.fetches EXCEPT
                        ![b.abortRef].aborted = TRUE,
                        ![b.abortRef].superseded = b.fetches[b.abortRef].phase = "fetching"]
    IN  [b EXCEPT !.fetches = Append(old, [q |-> b.q, phase |-> "fetching",
                                           aborted |-> FALSE, superseded |-> FALSE,
                                           outcome |-> "pending", alert |-> FALSE]),
                  !.abortRef = Len(b.fetches) + 1]

\* the effect of lines 239-247, up to the call of fetchPosts; it runs at the
\* mount and whenever `q`, the dependency of fetchPosts, has changed
postsEffect(b) == fetchPosts([b EXCEPT !.loading = TRUE])

InitBlog ==
    /\ loc = [hours |-> Null]
    /\ openNow = Null
    /\ clock = [day |-> 1, secs |-> 12 * 3600]
    /\ hostTZ \in HostZones
    /\ raw = <<>>
    /\ filters = DEFAULT_FILTERS
    /\ ranked = <<>>
    /\ visiblePins = <<>>
    /\ MapScreenAtMount
    /\ blog = postsEffect(BlogAtMount)

\* onSubmitSearch with a new query (lines 216-218), and the effect it triggers
SubmitSearch(query) ==
    /\ blog.mounted
    /\ query # blog.q
    /\ Len(blog.fetches) < MaxPostFetches
    /\ blog' = postsEffect([blog EXCEPT !.q = query])
    /\ UNCHANGED <<selected, openVars, envVars, filterVars, viewVars, screenVars>>

\* the request of posts fetch i ends: lines 129-145 and the effect's `then`,
\* or a throw and the effect's `catch` (lines 243-246)
PostsSettle(i) ==
    /\ i \in 1..Len(blog.fetches)
    /\ blog.fetches[i].phase = "fetching"
    /\ ~blog.fetches[i].aborted
    /\ \E ok \in BOOLEAN :
          blog' = IF ok
                  THEN [blog EXCEPT !.fetches[i].phase = "settled",
                                    !.fetches[i].outcome = "committed",
                                    !.basePosts = PostsFor(blog.fetches[i].q),
                                    !.posts = PostsFor(blog.fetches[i].q),
                                    !.loading = FALSE]
                  ELSE [blog EXCEPT !.fetches[i].phase = "settled",
                                    !.fetches[i].outcome = "failed",
                                    !.fetches[i].alert = TRUE,
                                    !.loading = FALSE]
    /\ UNCHANGED <<selected, openVars, envVars, filterVars, viewVars, screenVars>>

\* the pending await of an aborted posts fetch rejects with an AbortError:
\* fetchPosts has no try/catch, so the effect's `catch` runs (lines 243-246)
PostsAbort(i) ==
    /\ i \in 1..Len(blog.fetches)
    /\ blog.fetches[i].phase = "fetching"
    /\ blog.fetches[i].aborted
    /\ blog' = [blog EXCEPT !.fetches[i].phase = "settled",
                            !.fetches[i].outcome = "aborted",
                            !.fetches[i].alert = TRUE,
                            !.loading = FALSE]
    /\ UNCHANGED <<selected, openVars, envVars, filterVars, viewVars, screenVars>>

\* applySort("recent") (lines 170-176)
PressRecent ==
    /\ blog.mounted
    /\ blog' = [blog EXCEPT !.sort = "recent", !.posts = blog.basePosts]
    /\ UNCHANGED <<selected, openVars, envVars, filterVars, viewVars, screenVars>>

\* applySort("nearby", r) up to its first await (lines 170-180): the call
\* keeps the basePosts of the render its closure was made in
applySort(b, r, by) ==
    [b EXCEPT !.sort = "nearby",
              !.sorts = Append(@, [r |-> r, base |-> b.basePosts, by |-> by,
                                   phase |-> "permission", pos |-> Null,
                                   outcome |-> "pending", alert |-> FALSE])]

\* the Nearby pill: applySort("nearby") with the radius of the state (line 338)
PressNearby ==
    /\ blog.mounted
    /\ Len(blog.sorts) < MaxSorts
    /\ blog' = applySort(blog, blog.radius, "nearby")
    /\ UNCHANGED <<selected, openVars, envVars, filterVars, viewVars, screenVars>>

\* a radius pill, shown while sort is "nearby" (lines 345-352)
PressRadius(r) ==
    /\ blog.mounted
    /\ blog.sort = "nearby"
    /\ Len(blog.sorts) < MaxSorts
    /\ blog' = applySort([blog EXCEPT !.radius = r], r, "radius")
    /\ UNCHANGED <<selected, openVars, envVars, filterVars, viewVars, screenVars>>

\* applySort call i: the permission request settles (lines 180-186)
SortPermission(i) ==
    /\ i \in 1..Len(blog.sorts)
    /\ blog.sorts[i].phase = "permission"
    /\ \E granted \in BOOLEAN :
          blog' = IF granted
                  THEN [blog EXCEPT !.sorts[i].phase = "position"]
                  ELSE [blog EXCEPT !.sorts[i].phase = "done",
                                    !.sorts[i].outcome = "denied",
                                    !.sorts[i].alert = TRUE,
                                    !.sort = "recent",
                                    !.posts = blog.sorts[i].base]
    /\ UNCHANGED <<selected, openVars, envVars, filterVars, viewVars, screenVars>>

\* applySort call i: the position arrives, or the 8 s timeout rejects
\* (lines 188-194)
SortPosition(i) ==
    /\ i \in 1..Len(blog.sorts)
    /\ blog.sorts[i].phase = "position"
    /\ \/ \E p \in Positions :
             blog' = [blog EXCEPT !.sorts[i].phase = "rank", !.sorts[i].pos = Some(p)]
       \/ blog' = [blog EXCEPT !.sorts[i].phase = "done", !.sorts[i].outcome = "timeout"]
    /\ UNCHANGED <<selected, openVars, envVars, filterVars, viewVars, screenVars>>

\* applySort call i: fetchNearbyRank settles (lines 196-211); it has no
\* abort signal, and nothing tests whether a later call was made meanwhile
SortRank(i) ==
    /\ i \in 1..Len(blog.sorts)
    /\ blog.sorts[i].phase = "rank"
    /\ \E ok \in BOOLEAN :
          LET distBySlug == fetchNearbyRank(Val(blog.sorts[i].pos), blog.sorts[i].r) IN
          blog' = IF ~ok
                  THEN [blog EXCEPT !.sorts[i].phase = "done", !.sorts[i].outcome = "failed"]
                  ELSE IF DOMAIN distBySlug = {}
                  THEN [blog EXCEPT !.sorts[i].phase = "done",
                                    !.sorts[i].outcome = "empty",
                                    !.sorts[i].alert = TRUE,
                                    !.posts = blog.sorts[i].base]
                  ELSE [blog EXCEPT !.sorts[i].phase = "done",
                                    !.sorts[i].outcome = "ranked",
                                    !.posts = rankByDistance(blog.sorts[i].base, distBySlug)]
    /\ UNCHANGED <<selected, openVars, envVars, filterVars, viewVars, screenVars>>

\* the tab unmounts: the cleanup of lines 249-251
BlogUnmount ==
    /\ blog.mounted
    /\ blog' = [blog EXCEPT !.mounted = FALSE,
                            !.fetches = IF blog.abortRef = 0 THEN @
                                        ELSE [@ EXCEPT ![blog.abortRef].aborted = TRUE]]
    /\ UNCHANGED <<selected, openVars, envVars, filterVars, viewVars, screenVars>>

NextBlog ==
    \/ \E query \in Queries : SubmitSearch(query)
    \/ \E i \in 1..MaxPostFetches : PostsSettle(i)
    \/ \E i \in 1..MaxPostFetches : PostsAbort(i)
    \/ PressRecent
    \/ PressNearby
    \/ \E r \in BlogRadii : PressRadius(r)
    \/ \E i \in 1..MaxSorts : SortPermission(i)
    \/ \E i \in 1..MaxSorts : SortPosition(i)
    \/ \E i \in 1..MaxSorts : SortRank(i)
    \/ BlogUnmount

SpecBlog == InitBlog /\ [][NextBlog]_vars

(***************************************************************************)
(* SpecCourts: the annotation of one fetched venue, for every pair of      *)
(* court counts the server may report.                                     *)
(***************************************************************************)
CourtCounts ==
    {Null} \cup {Courts(i, o) : i, o \in (0 - MaxCourts)..MaxCourts}

InitCourts ==
    /\ loc \in {Venue(9, 40000, 0 - 74000, Null, Null, Null, c, Null, Null, Null) :
                  c \in CourtCounts}
    /\ openNow = Null
    /\ clock = [day |-> 1, secs |-> 12 * 3600]
    /\ hostTZ \in HostZones
    /\ raw = <<>>
    /\ filters = DEFAULT_FILTERS
    /\ ranked = <<>>
    /\ visiblePins = <<>>
    /\ ScreenAtMount

\* lines 480-489 for a response that lists the venue: annotate and commit
Annotate ==
    /\ raw = <<>>
    /\ raw' = enhanceAll(<<loc>>, clock, hostTZ)
    /\ ranked' = filtered(raw', filters)
    /\ visiblePins' = visiblePinsMemo(ranked', regionRef)
    /\ UNCHANGED <<tabVars, openVars, envVars, filters, regionRef, screenVars>>

NextCourts == Annotate

SpecCourts == InitCourts /\ [][NextCourts]_vars

(***************************************************************************)
(* SpecView: the filters modal and the map's gestures while a committed    *)
(* record set is on the screen.                                            *)
(***************************************************************************)
InitView ==
    /\ loc = [hours |-> Null]
    /\ openNow = Null
    /\ clock = [day |-> 1, secs |-> 12 * 3600]
    /\ hostTZ \in HostZones
    /\ raw \in {enhanceAll(Nearby(c), clock, hostTZ) : c \in {LastFix, FreshFix}}
    /\ filters = DEFAULT_FILTERS
    /\ ranked = filtered(raw, filters)
    /\ visiblePins = visiblePinsMemo(ranked, Null)
    /\ ScreenAtMount

NextView ==
    \/ NextFilter
    \/ \E r \in MapRegions : RegionChangeComplete(r)

SpecView == InitView /\ [][NextView]_vars

(***************************************************************************)
(* Properties of the fetch controller (Spec).                              *)
(***************************************************************************)
Issued == 1..Len(fetches)
ResultOf(i) == enhanceAll(itemsOf(Val(fetches[i].reply)), clock, hostTZ)

\* C1: a fetch A superseded by a later fetch B while in flight never commits
\* its records, whatever the order of the responses; when B has committed,
\* raw is B's annotated result, also once A has settled after B.
C1_StaleNeverCommits ==
    /\ \A a \in Issued :
          fetches[a].superseded => fetches[a].outcome # "committed" /\ rawFrom # a
    /\ \A a, b \in Issued :
          a < b /\ fetches[a].superseded /\ fetches[b].outcome = "committed" /\ rawFrom = b
              => raw = ResultOf(b)

\* A settled after B had committed, and raw is B's result
C1_Witness ==
    \E a, b \in Issued :
        /\ a < b
        /\ fetches[a].superseded
        /\ fetches[a].phase = "settled"
        /\ lastSettled = a
        /\ fetches[b].outcome = "committed"
        /\ raw = ResultOf(b)
        /\ raw # <<>>

\* the request of fetch i ended in a transport error, an unparseable body or
\* a body with ok:false
EndedInFailure(f) ==
    /\ ~IsNull(f.reply)
    /\ Val(f.reply).status # "json" \/ ~Val(f.reply).ok

\* C2: a fetchNearby call that fails leaves raw exactly as it was.
C2_FailureKeepsRaw ==
    [][\A i \in Issued :
          fetches[i].phase # "settled" /\ fetches'[i].phase = "settled"
              /\ EndedInFailure(fetches'[i])
          => raw' = raw]_vars

\* a fetch answered with ok:false has just settled, and the records of the
\* earlier fetch are still there
C2_Witness ==
    \E i \in Issued :
        /\ lastSettled = i
        /\ fetches[i].outcome = "failed"
        /\ Val(fetches[i].reply) = JsonReply(FALSE, Null)
        /\ rawFrom # 0 /\ rawFrom < i
        /\ raw = ResultOf(rawFrom)
        /\ raw # <<>>

\* C17: once the screen is unmounted, no nearby fetch is in flight with its
\* signal not aborted, also when the unmount came while the startup sequence
\* was waiting for the permission or for a position.
C17_DisposalCancels ==
    ~mounted => \A i \in Issued : InFlight(i) => fetches[i].aborted

\* C18: every fetch that failed for another reason than being aborted has
\* shown an error notice, whichever operation issued it, and no aborted fetch
\* has shown one.
C18_FailureNotice ==
    \A i \in Issued :
        /\ fetches[i].outcome = "failed" => fetches[i].notice
        /\ fetches[i].outcome = "aborted" => ~fetches[i].notice

\* the most recently issued fetch
Latest == Len(fetches)

\* C22: loadingPins is true in every state in which the most recently issued
\* fetch is in flight, also after a fetch it superseded has settled.
C22_LoadingWhileCurrentInFlight ==
    Latest > 0 /\ InFlight(Latest) => loadingPins

\* C23: at most one fetch is in flight with a signal that is not aborted,
\* abortRef.current is null or the controller of the most recently issued
\* fetch, and the controller of a fetch in flight with a live signal is the
\* current one, whatever has settled meanwhile.
C23_OneLiveFetch ==
    /\ \A i, j \in Issued :
          InFlight(i) /\ ~fetches[i].aborted /\ InFlight(j) /\ ~fetches[j].aborted => i = j
    /\ abortRef \in {0, Latest}
    /\ \A i \in Issued : InFlight(i) /\ ~fetches[i].aborted => abortRef = i

\* a superseded fetch has settled while the fetch that replaced it is in
\* flight and still holds the current controller
C23_Witness ==
    /\ Latest = 2
    /\ fetches[1].superseded
    /\ fetches[1].phase = "settled"
    /\ InFlight(2) /\ ~fetches[2].aborted
    /\ abortRef = 2

\* C24: with the location known, a change of the radius issues no fetch and
\* leaves one pending timeout, which holds the new radius; when the timeout
\* fires, one fetch is issued with the radius on display, the last of the
\* burst, and no timeout is left.
C24_RadiusDebounced ==
    [][/\ radiusMiles' # radiusMiles =>
              /\ fetches' = fetches
              /\ ~IsNull(lastUserCoords) =>
                    radiusTimer' = <<[coords |-> Val(lastUserCoords), next |-> radiusMiles']>>
       /\ Len(fetches') > Len(fetches) /\ fetches'[Len(fetches')].by = "radius" =>
              /\ Len(fetches') = Len(fetches) + 1
              /\ fetches'[Len(fetches')].radius = radiusMiles
              /\ radiusTimer # <<>> /\ radiusTimer' = <<>>]_vars

\* the timeout of a burst has fired: one fetch was issued by it, with the
\* radius on display, which is not the radius of the mount
C24_Witness ==
    /\ radiusTimer = <<>>
    /\ radiusMiles # RadiusAtMount
    /\ Cardinality({i \in Issued : fetches[i].by = "radius"}) = 1
    /\ \E i \in Issued : fetches[i].by = "radius" /\ fetches[i].radius = radiusMiles

\* C27: every fetch is issued with the radius on display at that moment, the
\* startup fetches included.
C27_FetchUsesShownRadius ==
    [][Len(fetches') > Len(fetches) => fetches'[Len(fetches')].radius = radiusMiles]_vars

(***************************************************************************)
(* Properties of isOpenNow (SpecOpen).                                     *)
(***************************************************************************)
\* the wall clock of the venue at the current instant, when it resolves
NowParts == getNowPartsInTZ(effectiveTZ(loc.hours, hostTZ), clock, hostTZ)
Evaluated == ~IsNull(openNow) /\ ~IsNull(loc.hours) /\ ~IsNull(NowParts)
TodayKey == Val(NowParts).dayKey
NowS == Val(NowParts).seconds
TodaysHours == getHoursForDay(loc.hours, TodayKey)
YesterdaysHours == getHoursForDay(loc.hours, Val(prevDayKey(TodayKey)))
SpillsOver ==
    /\ ~IsNull(YesterdaysHours)
    /\ Val(YesterdaysHours).openS > Val(YesterdaysHours).closeS
    /\ NowS < Val(YesterdaysHours).closeS

\* C6: whenever yesterday's entry crosses midnight and the time of day is
\* before yesterday's close, isOpenNow is true, also when today has its own
\* entry whose window does not contain the current time.
C6_YesterdaySpillover == Evaluated /\ SpillsOver => Val(openNow) = TRUE

\* C7: with no entry for the current weekday, isOpenNow is true only if
\* yesterday's entry crosses midnight and the time is before its close.
C7_NoEntryToday ==
    Evaluated /\ IsNull(Val(loc.hours).days[TodayKey]) /\ Val(openNow) = TRUE
        => SpillsOver

\* C8: with today's entry open > close the result is (now >= open or
\* now < close), with open < close it is (open <= now < close); so for 22:00
\* to 02:00 every day it is true at 23:30 and 01:30, false at 03:00 and 12:00.
C8_TodayWindow ==
    Evaluated /\ ~IsNull(TodaysHours) =>
        LET o == Val(TodaysHours).openS
            c == Val(TodaysHours).closeS
        IN  /\ o > c => (Val(openNow) <=> (NowS >= o \/ NowS < c))
            /\ o < c => (Val(openNow) <=> (o <= NowS /\ NowS < c))
            /\ Val(loc.hours).days = [d \in DayKeys |-> Overnight] =>
                 /\ NowS \in {23 * 3600 + 1800, 3600 + 1800} => Val(openNow) = TRUE
                 /\ NowS \in {3 * 3600, 12 * 3600} => Val(openNow) = FALSE

C8_Witness ==
    /\ Evaluated
    /\ Val(loc.hours).days = [d \in DayKeys |-> Overnight]
    /\ NowS = 3600 + 1800
    /\ Val(openNow) = TRUE

\* C9: when today's entry has open == close (both parseable), isOpenNow is
\* true at every instant of that day, in every zone, whatever the other days.
C9_AllDayOpen ==
    Evaluated /\ ~IsNull(TodaysHours) /\ Val(TodaysHours).openS = Val(TodaysHours).closeS
        => Val(openNow) = TRUE

C9_Witness ==
    /\ Evaluated
    /\ Val(loc.hours).tz = Some("America/New_York")
    /\ Val(loc.hours).days[TodayKey] = AllDay
    /\ \E d \in DayKeys : Val(loc.hours).days[d] = Daytime
    /\ Val(openNow) = TRUE

\* the time strings of the model that are well-formed times of day
ValidTimes == {T0200, T0800, T0900, T1700, T2200}
\* an entry whose open or close is not a well-formed time of day
Malformed(d) ==
    /\ ~IsNull(d)
    /\ \/ Val(d).open \notin {Some(t) : t \in ValidTimes}
       \/ Val(d).close \notin {Some(t) : t \in ValidTimes}
\* the venue with the malformed entries of its schedule removed
WithoutMalformed(l) ==
    [hours |-> Some([days |-> [d \in DayKeys |->
                                 IF Malformed(Val(l.hours).days[d]) THEN Null
                                 ELSE Val(l.hours).days[d]],
                     tz |-> Val(l.hours).tz])]
Yesterday == Val(prevDayKey(TodayKey))

\* C19: a weekday whose open or close does not parse counts as a weekday with
\* no entry: the result at every instant is the result for the schedule
\* without that entry, and a malformed today with no usable yesterday is
\* closed.
C19_MalformedDayIsNoEntry ==
    Evaluated =>
        /\ Val(openNow) = isOpenNow(WithoutMalformed(loc), clock, hostTZ)
        /\ Malformed(Val(loc.hours).days[TodayKey])
              /\ (IsNull(Val(loc.hours).days[Yesterday])
                     \/ Malformed(Val(loc.hours).days[Yesterday]))
           => Val(openNow) = FALSE

\* today's entry is garbled and the venue is open through yesterday's
\* overnight window
C19_Witness ==
    /\ Evaluated
    /\ Val(loc.hours).days[TodayKey] = Garbled
    /\ Val(loc.hours).days[Yesterday] = Overnight
    /\ Val(openNow) = TRUE

\* the wall clock of the effective zone cannot be resolved
Unresolvable ==
    \/ hostTZ = NoIntl
    \/ effectiveTZ(loc.hours, hostTZ) \notin {"Etc/UTC", "America/New_York", "Asia/Tokyo"}

\* C20: isOpenNow returns false, and throws nothing, when there is no
\* schedule or when the weekday and time of the effective zone cannot be
\* resolved: an unknown tz, or a host that cannot resolve its local zone.
C20_FailsClosed ==
    ~IsNull(openNow) /\ (IsNull(loc.hours) \/ Unresolvable) => openNow = Some(FALSE)

(***************************************************************************)
(* Properties of the filter/rank pipeline (SpecFilter).                    *)
(***************************************************************************)
Verified(u) == u.item.visited = Some(1)
InRanked(u) == \E j \in 1..Len(ranked) : ranked[j] = u
Selected == {filters.skillLevels[i] : i \in 1..Len(filters.skillLevels)}
TagsOf(u) == {getSkillLevelsArray(u.item)[i] : i \in 1..Len(getSkillLevelsArray(u.item))}

\* C3: in the ranked list every record with visited == 1 precedes every
\* record with visited != 1, for every record set, filter and sort key.
C3_VerifiedFirst ==
    \A i, j \in 1..Len(ranked) : Verified(ranked[j]) /\ ~Verified(ranked[i]) => j < i

\* under the rating key, a verified record without a rating is ranked ahead of
\* a rated record that is not verified
C3_Witness ==
    /\ filters.sortBy = "rating"
    /\ \E i, j \in 1..Len(ranked) :
          /\ i < j
          /\ Verified(ranked[i]) /\ ~Verified(ranked[j])
          /\ IsNull(ranked[i].item.rating_overall)
          /\ ranked[j].item.rating_overall = Some(8)

\* the enabled constraints of the filters, skill levels aside
Satisfies(u) ==
    /\ filters.access = "public" =>
          u.item.access_type \in {Some("public"), Some("Public")}
    /\ filters.access = "paid" => u.item.access_type \in {Some("paid"), Some("PAID")}
    /\ filters.courtType = "indoor" =>
          ~IsNull(u.item.courts) /\ Val(u.item.courts).indoor > 0
    /\ filters.courtType = "outdoor" =>
          ~IsNull(u.item.courts) /\ Val(u.item.courts).outdoor > 0
    /\ filters.visitedOnly => Verified(u)
    /\ filters.openNowOnly => u._openNow
    /\ filters.courtsBucket = "1-2" => u._totalCourts \in 1..2
    /\ filters.courtsBucket = "3-5" => u._totalCourts \in 3..5
    /\ filters.courtsBucket = "6-9" => u._totalCourts \in 6..9
    /\ filters.courtsBucket = "10+" => u._totalCourts >= 10

\* C4: with no skill level selected, a fetched record is in the ranked list
\* iff it satisfies every enabled constraint; it is there once, and nothing
\* else is.
C4_Conjunction ==
    filters.skillLevels = <<>> =>
        /\ \A i \in 1..Len(raw) : InRanked(raw[i]) <=> Satisfies(raw[i])
        /\ \A j, k \in 1..Len(ranked) : j # k => ranked[j] # ranked[k]
        /\ \A j \in 1..Len(ranked) : \E i \in 1..Len(raw) : ranked[j] = raw[i]

\* two constraints are enabled; one record passes both, one fails one
C4_Witness ==
    /\ filters.skillLevels = <<>>
    /\ filters.courtType = "indoor"
    /\ filters.access = "public"
    /\ Len(raw) = 2
    /\ Len(ranked) = 1
    /\ \E i \in 1..Len(raw) : ~InRanked(raw[i]) /\ ~IsNull(raw[i].item.courts)

\* C5: with a non-empty set of selected skill levels, every venue of the
\* ranked list has at least one of the selected levels among its tags.
C5_SkillLevels ==
    filters.skillLevels # <<>> =>
        \A j \in 1..Len(ranked) : TagsOf(ranked[j]) \cap Selected # {}

\* the indices of the ranked list, and the two groups of the partition
Ranks == 1..Len(ranked)
SameGroup(i, j) == Verified(ranked[i]) <=> Verified(ranked[j])
DistanceOf(i) == ranked[i].item.distance_mi
RatingOf(i) == ranked[i].item.rating_overall
\* the place of a ranked record in the fetched record set
RawIndex(i) == CHOOSE k \in 1..Len(raw) : raw[k] = ranked[i]

\* C11: under the distance key, in each of the two groups, every record whose
\* distance_mi is not a number comes after every record with a numeric
\* distance, and the numeric distances are in non-decreasing order.
C11_DistanceOrder ==
    filters.sortBy = "distance" =>
        \A i, j \in Ranks :
            i < j /\ SameGroup(i, j) =>
                /\ IsNull(DistanceOf(i)) => IsNull(DistanceOf(j))
                /\ ~IsNull(DistanceOf(i)) /\ ~IsNull(DistanceOf(j))
                      => Val(DistanceOf(i)) <= Val(DistanceOf(j))

\* fetched as (no distance, numeric distance) or as (far, near), the two
\* records of one group are ranked the other way round
C11_Witness ==
    /\ filters.sortBy = "distance"
    /\ filters.courtsBucket = "3-5"
    /\ Len(ranked) = 2
    /\ SameGroup(1, 2)
    /\ RawIndex(1) = 2
    /\ Val(DistanceOf(1)) < Val(DistanceOf(2))

\* C12: under the rating key, in each group, every record without a rating
\* comes after every rated record, also after one rated 0, and the ratings
\* are in non-increasing order.
C12_RatingOrder ==
    filters.sortBy = "rating" =>
        \A i, j \in Ranks :
            i < j /\ SameGroup(i, j) =>
                /\ IsNull(RatingOf(i)) => IsNull(RatingOf(j))
                /\ ~IsNull(RatingOf(i)) /\ ~IsNull(RatingOf(j))
                      => Val(RatingOf(i)) >= Val(RatingOf(j))

\* fetched as (no rating, rated 0), the two records of one group are ranked
\* the other way round
C12_Witness ==
    /\ filters.sortBy = "rating"
    /\ Len(ranked) = 2
    /\ SameGroup(1, 2)
    /\ RawIndex(1) = 2
    /\ RatingOf(1) = Some(0)
    /\ IsNull(RatingOf(2))

\* the two records compare equal under the sort key
EqualUnderKey(i, j) ==
    IF filters.sortBy = "distance" THEN DistanceOf(i) = DistanceOf(j)
    ELSE IF filters.sortBy = "rating" THEN RatingOf(i) = RatingOf(j)
    ELSE ranked[i]._totalCourts = ranked[j]._totalCourts

C10_Idempotent ==
    /\ \A j \in 1..Len(ranked) : \E i \in 1..Len(raw) : ranked[j] = raw[i]
    /\ filtered(ranked, filters) = ranked

\* under the courts key the ranked list holds the two fetched records in the
\* other order, and ranking it again changes nothing
C10_Witness ==
    /\ Len(ranked) = 2
    /\ ranked # raw
    /\ filters.sortBy = "courts"
    /\ filters.courtType = "indoor"
    /\ filtered(ranked, filters) = ranked

(***************************************************************************)
(* Properties of the viewport culler (SpecPins).                           *)
(***************************************************************************)
TheRegion == Val(regionRef)
\* the record lies in the rectangle center +/- delta/2, bounds included
InBounds(u) ==
    /\ 2 * (u.item.latitude - TheRegion.latitude) \in
          (0 - TheRegion.latitudeDelta)..TheRegion.latitudeDelta
    /\ 2 * (u.item.longitude - TheRegion.longitude) \in
          (0 - TheRegion.longitudeDelta)..TheRegion.longitudeDelta
Wide == TheRegion.latitudeDelta > 3000 \/ TheRegion.longitudeDelta > 3000
PinCap == IF Wide THEN 250 ELSE 500
\* the ranks of the in-bounds records of the ranked list
InBoundRanks == {i \in 1..Len(ranked) : InBounds(ranked[i])}

\* C14: for a known region, every pin lies inside the region's rectangle,
\* bounds included, and there are at most 250 pins when either delta exceeds
\* 3 degrees and at most 500 otherwise.
C14_PinsInRegionAndCapped ==
    ~IsNull(regionRef) =>
        /\ \A k \in 1..Len(visiblePins) : InBounds(visiblePins[k])
        /\ Len(visiblePins) <= PinCap

\* a map wide in longitude only shows 250 pins of more than 250 in-bounds
\* records
C14_Witness ==
    /\ ~IsNull(regionRef)
    /\ TheRegion.latitudeDelta <= 3000
    /\ TheRegion.longitudeDelta > 3000
    /\ Cardinality(InBoundRanks) > 250
    /\ Cardinality(InBoundRanks) < Len(ranked)
    /\ Len(visiblePins) = 250

\* C15: for a known region, the pins are the first cap in-bounds records of
\* the ranked list, in rank order: the k-th in-bounds record is the k-th pin
\* for every k up to the cap, and there is no other pin.
C15_FirstCapInRankOrder ==
    ~IsNull(regionRef) =>
        /\ Len(visiblePins) <= Cardinality(InBoundRanks)
        /\ Len(visiblePins) <= PinCap
        /\ \A i \in InBoundRanks :
              LET k == Cardinality({j \in InBoundRanks : j <= i}) IN
              k <= PinCap => k <= Len(visiblePins) /\ visiblePins[k] = ranked[i]

\* the cap of a zoomed-in map binds with out-of-bounds records ranked among
\* the first 500: the last pin is ranked beyond the cap
C15_Witness ==
    /\ ~IsNull(regionRef)
    /\ ~Wide
    /\ Len(visiblePins) = 500
    /\ Cardinality(InBoundRanks) > 500
    /\ \E i \in 1..500 : i \notin InBoundRanks
    /\ filters.sortBy = "rating"

(***************************************************************************)
(* Properties of the view (SpecView).                                      *)
(***************************************************************************)
\* C16: a change of a filter field or of the sort key, a reset of the filters
\* and a move or zoom of the map issue no nearby fetch and leave the fetched
\* record set as it is; a move or zoom also leaves the ranked list, and so
\* its count, as it is.
C16_ViewChangesDoNotFetch ==
    [][/\ filters' # filters \/ regionRef' # regionRef =>
              /\ fetches' = fetches
              /\ abortRef' = abortRef
              /\ radiusTimer' = radiusTimer
              /\ raw' = raw
       /\ regionRef' # regionRef => ranked' = ranked /\ Len(ranked') = Len(ranked)]_vars

\* the filters were changed and the map was moved: two records are ranked,
\* one of them is drawn, and no fetch was issued
C16_Witness ==
    /\ filters.sortBy = "courts"
    /\ filters.courtsBucket = "any"
    /\ ~IsNull(regionRef)
    /\ Len(raw) = 2
    /\ Len(ranked) = 2
    /\ Len(visiblePins) = 1
    /\ fetches = <<>>

(***************************************************************************)
(* Properties of the annotation (SpecCourts).                              *)
(***************************************************************************)
\* C21: for every pair of indoor and outdoor counts, negative or missing ones
\* included, _totalCourts is max(0, indoor) + max(0, outdoor).
C21_TotalCourtsClampsEach ==
    \A i \in 1..Len(raw) :
        LET c == raw[i].item.courts
            indoor == IF IsNull(c) THEN 0 ELSE Val(c).indoor
            outdoor == IF IsNull(c) THEN 0 ELSE Val(c).outdoor
        IN  raw[i]._totalCourts
              = (IF indoor > 0 THEN indoor ELSE 0) + (IF outdoor > 0 THEN outdoor ELSE 0)

(***************************************************************************)
(* Properties of the pins and the details modal (SpecMap, SpecDetails,     *)
(* SpecStale).                                                             *)
(***************************************************************************)
\* C28: in every state the pins drawn are the cull of the current ranked
\* list against regionRef.current, and regionRef.current is null only while
\* the ranked list is empty, so the fallback without a bounds check never
\* draws a record.
C28_PinsFollowRegion ==
    /\ visiblePins = visiblePinsMemo(ranked, regionRef)
    /\ IsNull(regionRef) => ranked = <<>>

\* the second fetch has committed two records and the region around the
\* fresh fix holds one of them
C28_Witness ==
    /\ rawFrom = 2
    /\ Len(ranked) = 2
    /\ regionRef = Some(RegionAround(FreshFix))
    /\ Len(visiblePins) = 1

\* C26: the record in the details modal is null or one of the current
\* record set raw.
C26_SelectedIsCurrent ==
    IsNull(selected) \/ \E i \in 1..Len(raw) : raw[i] = Val(selected)

\* C25: while no fetch commits, no step changes raw, so every _openNow flag
\* keeps its value of the commit; and with the open-now filter on, a record
\* is in the ranked list iff that flag is true and it passes the other
\* filters, whatever isOpenNow gives now.
C25_OpenNowIsFetchTime ==
    /\ [][raw' = raw]_vars
    /\ [](filters.openNowOnly =>
            \A i \in 1..Len(raw) :
                InRanked(raw[i]) <=>
                    raw[i]._openNow /\ passes(raw[i], [filters EXCEPT !.openNowOnly = FALSE]))

\* the open-now filter keeps the selected record, whose flag says open,
\* while the details panel has recomputed isOpenNow and shows closed
C25_Witness ==
    /\ filters.openNowOnly
    /\ ~IsNull(selected)
    /\ InRanked(Val(selected))
    /\ Val(selected)._openNow
    /\ openNow = Some(FALSE)

(***************************************************************************)
(* Properties of the blog tab (SpecBlog).                                  *)
(***************************************************************************)
Orderings == 1..Len(blog.sorts)
PostFetches == 1..Len(blog.fetches)

\* C29: when two or more nearby orderings of the same posts have been
\* requested and each has ended by ordering the posts, the radius displayed
\* is the one of the last request and the posts are in the order of the
\* distances found for the last request, whichever ended last.
C29_LastRequestWins ==
    (/\ Len(blog.sorts) >= 2
     /\ blog.sort = "nearby"
     /\ \A i \in Orderings :
           blog.sorts[i].outcome = "ranked" /\ blog.sorts[i].base = blog.basePosts
     /\ \A i \in PostFetches : blog.fetches[i].phase = "settled")
    => LET last == blog.sorts[Len(blog.sorts)] IN
          /\ blog.radius = last.r
          /\ blog.posts = rankByDistance(blog.basePosts, fetchNearbyRank(Val(last.pos), last.r))

\* C30: a posts fetch superseded while in flight shows no alert, and the
\* loading flag is set as long as the newest posts fetch is in flight.
C30_SupersededIsSilent ==
    /\ \A i \in PostFetches : blog.fetches[i].superseded => ~blog.fetches[i].alert
    /\ blog.fetches[Len(blog.fetches)].phase = "fetching" => blog.loading

====
